---------------------------- MODULE Spec2Model ----------------------------
(***************************************************************************)
(* CarbonStream: capacity, latency, throughput and lifecycle-carbon model  *)
(* of a three-tier (frontend, cache, backend) video delivery system.       *)
(*                                                                         *)
(* The model follows src/src/carbon_stream.py (the configuration-file      *)
(* variant) statement by statement; the legacy variant src/carbon_stream.py*)
(* contributes the formulas that differ from it.                           *)
(*                                                                         *)
(* Numbers.  Python ints and floats are modelled as exact rationals        *)
(* [n |-> numerator, d |-> denominator], d > 0, in lowest terms; a decimal *)
(* literal of the source denotes the rational it spells (0.5 is 1/2).      *)
(* Arithmetic is exact: the rounding of IEEE-754 doubles is not modelled.  *)
(***************************************************************************)
EXTENDS Integers, Sequences, FiniteSets, TLC

(***************************************************************************)
(* Exact rational arithmetic (Python's +, -, *, /, //, min, comparison).   *)
(***************************************************************************)
Abs(i) == IF i < 0 THEN -i ELSE i

RECURSIVE GCD(_, _)
GCD(a, b) == IF b = 0 THEN a ELSE GCD(b, a % b)

\* The rational num/den (den # 0) in lowest terms with a positive denominator.
Q(num, den) ==
    LET g == GCD(Abs(num), Abs(den))
        s == IF den < 0 THEN -1 ELSE 1
    IN  [n |-> s * (num \div g), d |-> s * (den \div g)]

\* An integer as a rational.
R(i) == [n |-> i, d |-> 1]

RAdd(a, b) ==
    LET g == GCD(a.d, b.d)
    IN  Q(a.n * (b.d \div g) + b.n * (a.d \div g), (a.d \div g) * b.d)

RNeg(a) == [n |-> -a.n, d |-> a.d]

RSub(a, b) == RAdd(a, RNeg(b))

RMul(a, b) ==
    LET g1 == GCD(Abs(a.n), b.d)
        g2 == GCD(Abs(b.n), a.d)
    IN  IF a.n = 0 \/ b.n = 0
        THEN R(0)
        ELSE [n |-> (a.n \div g1) * (b.n \div g2),
              d |-> (a.d \div g2) * (b.d \div g1)]

\* a / b for b # 0 (Python raises ZeroDivisionError when b = 0: see the callers).
RDiv(a, b) ==
    RMul(a, IF b.n < 0 THEN [n |-> -b.d, d |-> -b.n] ELSE [n |-> b.d, d |-> b.n])

RIsZero(a) == a.n = 0

RLt(a, b) == RSub(a, b).n < 0

RLe(a, b) == RSub(a, b).n <= 0

REq(a, b) == a.n = b.n /\ a.d = b.d

RIsInteger(a) == a.d = 1

\* math.floor / numpy.floor: the greatest integer <= a, as a rational.
RFloor(a) == R(a.n \div a.d)

\* numpy.ceil: the least integer >= a, as a rational.
RCeil(a) == R(-((-a.n) \div a.d))

\* Python's a // b for b # 0.
RFloorDiv(a, b) == RFloor(RDiv(a, b))

\* Python's min(a, b): b only when b < a.
RMin(a, b) == IF RLt(b, a) THEN b ELSE a

\* Python's sum() over a list of numbers, left to right from 0.
RECURSIVE RSum(_)
RSum(s) == IF s = <<>> THEN R(0) ELSE RAdd(RSum(SubSeq(s, 1, Len(s) - 1)), s[Len(s)])


(***************************************************************************)
(* Bounds of the model and the input domains they span.                    *)
(***************************************************************************)
\* Largest --slo_throughput of the contiguous range tried (from -1).
MaxSlo == 3

\* Largest --simulation_years of the contiguous range tried (from -1).
MaxYears == 2

\* Invocations run one after the other against the same output path.
MaxRuns == 3

\* --slo_throughput (type=int): the range, and the aggregate-throughput scenario.
SloThroughputs == (-1 .. MaxSlo) \cup {50}

\* --simulation_years (type=int): the range, the default and the replacement scenarios.
SimulationYears == (-1 .. MaxYears) \cup {5, 10, 12}

\* --slo_latency (type=int): reported, never used in a computation.
SloLatencies == {100}

(***************************************************************************)
(* Configuration files: what json.load returns for the files on disk.      *)
(***************************************************************************)
SystemA ==
    [latency |-> [network |-> R(1), processing |-> Q(1, 2)],
     storage_capacity |-> R(8),
     active_idle_ratio |-> Q(7, 10),
     read_write_ratio |-> Q(7, 10),
     carbon_intensity |-> Q(1, 3153600)]

SystemB ==
    [latency |-> [network |-> R(0), processing |-> Q(1, 4)],
     storage_capacity |-> R(100),
     active_idle_ratio |-> Q(1, 2),
     read_write_ratio |-> R(1),
     carbon_intensity |-> Q(1, 31536000)]

ServerJson(name, latency, throughput, initial, read, write, idle, lifespan, capacity) ==
    [name |-> name, latency |-> latency, throughput |-> throughput,
     embodied_cost |-> [initial |-> initial],
     power_consumption |-> [active |-> [read |-> read, write |-> write], idle |-> idle],
     lifespan |-> lifespan, capacity |-> capacity]

FrontendLow  == ServerJson("low_performance",  Q(2, 25),  R(2),   R(3), R(2), R(3), R(1), R(5),  R(4))
FrontendHigh == ServerJson("high_performance", Q(1, 100), R(100), R(7), R(5), R(5), R(2), R(10), R(4))

CacheFlash == ServerJson("flash", Q(2, 25),  Q(1, 2), R(2), R(1), R(2), R(1), Q(5, 2), R(3))
CacheDram  == ServerJson("DRAM",  Q(1, 100), R(50),   R(6), R(4), R(4), R(3), R(10),   R(4))

BackendSsd  == ServerJson("SSD",  Q(2, 25), R(75),   R(3), R(2), R(3), R(1), R(5),  R(4))
BackendTape == ServerJson("tape", R(10),    Q(2, 5), R(1), R(1), R(1), R(0), R(30), R(18))
\* Files a user can supply: a per-server throughput of zero, and a negative one.
BackendZero == ServerJson("zero_throughput",     R(1), R(0),  R(1), R(1), R(1), R(1), R(5), R(4))
BackendNeg  == ServerJson("negative_throughput", R(1), R(-1), R(1), R(1), R(1), R(1), R(5), R(4))

\* A file that parses as JSON but lacks keys of both schemas.
Incomplete == [name |-> "incomplete", latency |-> R(1)]

Json(value) == [kind |-> "json", value |-> value]
Missing     == [kind |-> "missing"]
Malformed   == [kind |-> "malformed"]

\* The argparse defaults of --system, --frontend, --cache, --backend.
ArgDefaultSystem   == "../config/system/system.json"
ArgDefaultFrontend == "../config/frontend/low_performance.json"
ArgDefaultCache    == "../config/cache/flash.json"
ArgDefaultBackend  == "../config/backend/SSD/Samsung_PM9A3.json"

\* The module-level fallback paths.
DEFAULT_SYSTEM_CONFIG   == "configs/system/system.json"
DEFAULT_FRONTEND_CONFIG == "configs/frontend/low_performance/Samsung_PM9A3.json"
DEFAULT_CACHE_CONFIG    == "configs/cache/DRAM/Samsung_PM9A3.json"
DEFAULT_BACKEND_CONFIG  == "configs/backend/SSD/Samsung_PM9A3.json"

\* The files under the working directory "workdir"; any other path does not resolve.
WorkDir ==
    (ArgDefaultSystem   :> Json(SystemA))      @@ ("system_b.json"         :> Json(SystemB)) @@
    (ArgDefaultFrontend :> Json(FrontendLow))  @@ ("high_performance.json" :> Json(FrontendHigh)) @@
    (ArgDefaultCache    :> Json(CacheFlash))   @@ ("dram.json"             :> Json(CacheDram)) @@
    (ArgDefaultBackend  :> Json(BackendSsd))   @@ ("tape.json"             :> Json(BackendTape)) @@
    ("zero.json"        :> Json(BackendZero))  @@ ("negative.json"         :> Json(BackendNeg)) @@
    ("broken.json"      :> Malformed)          @@ ("incomplete.json"       :> Json(Incomplete))

\* A directory that also holds the four files at the module-level fallback paths.
RepoRoot ==
    WorkDir @@
    (DEFAULT_SYSTEM_CONFIG   :> Json(SystemB))      @@ (DEFAULT_FRONTEND_CONFIG :> Json(FrontendHigh)) @@
    (DEFAULT_CACHE_CONFIG    :> Json(CacheDram))    @@ (DEFAULT_BACKEND_CONFIG  :> Json(BackendTape))

\* A directory whose fallback files are unusable: the frontend one is not JSON, the
\* cache one lacks keys, the backend one is absent.
RepoStale ==
    WorkDir @@
    (DEFAULT_SYSTEM_CONFIG   :> Json(SystemB))      @@ (DEFAULT_FRONTEND_CONFIG :> Malformed) @@
    (DEFAULT_CACHE_CONFIG    :> Json(Incomplete))

\* The files of the disk image named d.
Files(d) == CASE d = "workdir"    -> WorkDir
              [] d = "repo_root"  -> RepoRoot
              [] d = "repo_stale" -> RepoStale

DiskImages == {"workdir", "repo_root", "repo_stale"}

\* open(path) and json.load among the files `files`.
ReadIn(files, path) == IF path \in DOMAIN files THEN files[path] ELSE Missing

ReadFile(d, path) == ReadIn(Files(d), path)

SystemPaths   == {ArgDefaultSystem, "system_b.json", "missing.json", "broken.json"}
FrontendPaths == {ArgDefaultFrontend, "high_performance.json", "missing.json", "broken.json"}
CachePaths    == {ArgDefaultCache, "dram.json", "missing.json", "broken.json"}
BackendPaths  == {ArgDefaultBackend, "tape.json", "zero.json", "negative.json",
                  "missing.json", "broken.json"}

\* The namespaces argparse can return: every flag has a default, every int flag
\* takes any integer.
ArgsAll ==
    [slo_latency : SloLatencies, slo_throughput : SloThroughputs,
     system : SystemPaths, frontend : FrontendPaths, cache : CachePaths,
     backend : BackendPaths, simulation_years : SimulationYears]

(***************************************************************************)
(* The functions of src/src/carbon_stream.py.                              *)
(***************************************************************************)
\* What a call yields: a returned value, an uncaught exception, or exit(code).
Return(v)    == [how |-> "return", value |-> v, log |-> <<>>]
Raise(e)     == [how |-> "raise", exception |-> e, log |-> <<>>]
Exit(c, msg) == [how |-> "exit", code |-> c, log |-> <<msg>>]

\* Fault variant: a supplied path that does not resolve falls back to the default.
load_config_missing_falls_back(disk, file_path, default_config) ==
    LET f == ReadFile(disk, file_path)
        g == ReadFile(disk, default_config)
        said == <<"No configuration file provided, using default", default_config>>
    IN  IF file_path # "" /\ f.kind = "json" THEN Return(f.value)
        ELSE IF file_path # "" /\ f.kind = "malformed"
        THEN Exit(1, <<"Error: Configuration file is not a valid JSON file", file_path>>)
        ELSE CASE g.kind = "missing"   -> [Raise("FileNotFoundError") EXCEPT !.log = <<said>>]
               [] g.kind = "malformed" -> [Raise("JSONDecodeError") EXCEPT !.log = <<said>>]
               [] OTHER                -> [Return(g.value) EXCEPT !.log = <<said>>]

\* Lines 17-26: the supplied path, read as f; a missing or unparsable file prints a
\* diagnostic and exits with 1.
load_config_supplied(f, file_path) ==
    CASE f.kind = "missing"   -> Exit(1, <<"Error: Configuration file not found", file_path>>)
      [] f.kind = "malformed" -> Exit(1, <<"Error: Configuration file is not a valid JSON file", file_path>>)
      [] OTHER                -> Return(f.value)

\* Lines 27-31: the fallback path, announced and read as f without a handler.
load_config_default(f, said) ==
    CASE f.kind = "missing"   -> [Raise("FileNotFoundError") EXCEPT !.log = <<said>>]
      [] f.kind = "malformed" -> [Raise("JSONDecodeError") EXCEPT !.log = <<said>>]
      [] OTHER                -> [Return(f.value) EXCEPT !.log = <<said>>]

\* load_config(file_path, default_config): a supplied path is read, and a missing or
\* unparsable file prints a diagnostic and exits with 1; an empty path falls back to
\* the default, read without a handler.
load_config(disk, file_path, default_config) ==
    IF file_path # ""
    THEN load_config_supplied(ReadFile(disk, file_path), file_path)
    ELSE load_config_default(ReadFile(disk, default_config),
                             <<"No configuration file provided, using default", default_config>>)

\* SystemConfig.__init__: the five keys of the system file.
SystemConfig(params) ==
    [latency |-> params.latency,
     storage_capacity |-> params.storage_capacity,
     active_idle_ratio |-> params.active_idle_ratio,
     read_write_ratio |-> params.read_write_ratio,
     carbon_intensity |-> params.carbon_intensity]

\* ServerConfig.__init__: the seven keys of a tier file.
ServerConfig(params) ==
    [name |-> params.name,
     latency |-> params.latency,
     throughput |-> params.throughput,
     embodied_cost |-> params.embodied_cost,
     power_consumption |-> params.power_consumption,
     lifespan |-> params.lifespan,
     capacity |-> params.capacity]

\* The keys the two constructors subscript.
SystemKeys == {"latency", "storage_capacity", "active_idle_ratio", "read_write_ratio",
               "carbon_intensity"}
ServerKeys == {"name", "latency", "throughput", "embodied_cost", "power_consumption",
               "lifespan", "capacity"}

\* The calls SystemConfig(system_json) and ServerConfig(..._json): params[key] on a
\* dict without the key raises KeyError.
NewSystemConfig(params) ==
    IF SystemKeys \subseteq DOMAIN params THEN Return(SystemConfig(params)) ELSE Raise("KeyError")

NewServerConfig(params) ==
    IF ServerKeys \subseteq DOMAIN params THEN Return(ServerConfig(params)) ELSE Raise("KeyError")

\* Fault variant: the cache latency weighted by the hit rate.
calculate_average_latency_cache_on_hit(system_config, frontend_config, cache_config, backend_config, cache_hit_rate) ==
    LET overhead == RAdd(system_config.latency.network, system_config.latency.processing)
    IN  RAdd(RAdd(RAdd(frontend_config.latency, overhead),
                  RMul(cache_hit_rate, RAdd(cache_config.latency, overhead))),
             RMul(RSub(R(1), cache_hit_rate), RAdd(backend_config.latency, overhead)))

\* Fault variant: the backend latency weighted by the hit rate, not the miss rate.
calculate_average_latency_backend_on_hit(system_config, frontend_config, cache_config, backend_config, cache_hit_rate) ==
    LET overhead == RAdd(system_config.latency.network, system_config.latency.processing)
    IN  RAdd(RAdd(RAdd(frontend_config.latency, overhead), RAdd(cache_config.latency, overhead)),
             RMul(cache_hit_rate, RAdd(backend_config.latency, overhead)))

\* calculate_average_latency: frontend + cache + miss rate * backend.
calculate_average_latency(system_config, frontend_config, cache_config, backend_config, cache_hit_rate) ==
    LET frontend_latency == RAdd(RAdd(frontend_config.latency, system_config.latency.network),
                                 system_config.latency.processing)
        cache_latency    == RAdd(RAdd(cache_config.latency, system_config.latency.network),
                                 system_config.latency.processing)
        backend_latency  == RAdd(RAdd(backend_config.latency, system_config.latency.network),
                                 system_config.latency.processing)
        cache_miss_rate  == RSub(R(1), cache_hit_rate)
    IN  RAdd(RAdd(frontend_latency, cache_latency), RMul(cache_miss_rate, backend_latency))

\* calculate_total_throughput: per-server throughput times server count.
calculate_total_throughput(config, num_servers) == RMul(config.throughput, num_servers)

\* Fault variant: the backend aggregate left out of the minimum.
calculate_peak_throughput_without_backend(frontend_total_throughput, cache_total_throughput, backend_total_throughput) ==
    RMin(frontend_total_throughput, cache_total_throughput)

\* calculate_peak_throughput: Python's min of the three, the first least one.
calculate_peak_throughput(frontend_total_throughput, cache_total_throughput, backend_total_throughput) ==
    RMin(RMin(frontend_total_throughput, cache_total_throughput), backend_total_throughput)

\* Fault variant: a zero divisor guarded, no servers returned.
calculate_servers_needed_zero_guarded(throughput, config_throughput) ==
    IF RIsZero(config_throughput)
    THEN Return(R(0))
    ELSE Return(RCeil(RDiv(throughput, config_throughput)))

\* Fault variant: integer division, throughput // config_throughput.
calculate_servers_needed_floor(throughput, config_throughput) ==
    IF RIsZero(config_throughput)
    THEN Raise("ZeroDivisionError")
    ELSE Return(RFloorDiv(throughput, config_throughput))

\* calculate_servers_needed: np.ceil(throughput / config_throughput); the division
\* of two Python numbers raises ZeroDivisionError on a zero divisor.
calculate_servers_needed(throughput, config_throughput) ==
    IF RIsZero(config_throughput)
    THEN Raise("ZeroDivisionError")
    ELSE Return(RCeil(RDiv(throughput, config_throughput)))

\* Fault variant: the ratio returned without the cap.
calculate_cache_hit_rate_uncapped(system_config, cache_config, num_cache_servers) ==
    RDiv(RMul(cache_config.capacity, num_cache_servers), system_config.storage_capacity)

\* calculate_cache_hit_rate: aggregate cache capacity over the stored volume, capped
\* at 1 (storage_capacity # 0).
calculate_cache_hit_rate(system_config, cache_config, num_cache_servers) ==
    LET total_cache_capacity == RMul(cache_config.capacity, num_cache_servers)
        hit_rate == RDiv(total_cache_capacity, system_config.storage_capacity)
    IN  RMin(R(1), hit_rate)

\* 365 * 24 * 60 * 60
seconds_in_a_year == 365 * 24 * 60 * 60

\* The active cost of one tier before the backend's miss-rate factor.
ActiveCost(system_config, config, num_servers, total_seconds) ==
    RMul(RMul(RAdd(RMul(RMul(RMul(num_servers, config.power_consumption.active.read),
                             system_config.carbon_intensity),
                        system_config.read_write_ratio),
                   RMul(RMul(RMul(num_servers, config.power_consumption.active.write),
                             system_config.carbon_intensity),
                        RSub(R(1), system_config.read_write_ratio))),
              total_seconds),
         system_config.active_idle_ratio)

\* The idle cost of one tier before the backend's miss-rate factor.
IdleCost(system_config, config, num_servers, total_seconds) ==
    RMul(RMul(RMul(RMul(num_servers, config.power_consumption.idle),
                   system_config.carbon_intensity),
              RSub(R(1), system_config.active_idle_ratio)),
         total_seconds)

\* Fault variant: the hit rate as the factor.
MissRateScaled_by_hit_rate(cost, cache_hit_rate) == RMul(cost, cache_hit_rate)

\* The backend's factor: * (1 - cache_hit_rate), only cache misses reach it.
MissRateScaled(cost, cache_hit_rate) == RMul(cost, RSub(R(1), cache_hit_rate))

\* Fault variant: simulation_years >= lifespan in place of >.
ReplacementCost_at_lifespan(config, num_servers, simulation_years) ==
    IF RLe(config.lifespan, simulation_years)
    THEN RMul(RMul(RFloorDiv(simulation_years, config.lifespan), num_servers),
              config.embodied_cost.initial)
    ELSE R(0)

\* The replacement cost of one tier (lifespan # 0).
ReplacementCost(config, num_servers, simulation_years) ==
    IF RLt(config.lifespan, simulation_years)
    THEN LET num_replacements == RFloorDiv(simulation_years, config.lifespan)
         IN  RMul(RMul(num_replacements, num_servers), config.embodied_cost.initial)
    ELSE R(0)

\* calculate_individual_carbon_costs: the four lists, each frontend, cache, backend.
calculate_individual_carbon_costs(system_config, frontend_config, cache_config, backend_config, num_frontend_servers, num_cache_servers, num_backend_servers, cache_hit_rate, simulation_years) ==
    LET total_seconds == RMul(simulation_years, R(seconds_in_a_year))
        frontend_embodied_carbon_cost == RMul(num_frontend_servers, frontend_config.embodied_cost.initial)
        cache_embodied_carbon_cost    == RMul(num_cache_servers, cache_config.embodied_cost.initial)
        backend_embodied_carbon_cost  == RMul(num_backend_servers, backend_config.embodied_cost.initial)
        frontend_active_cost == ActiveCost(system_config, frontend_config, num_frontend_servers, total_seconds)
        cache_active_cost    == ActiveCost(system_config, cache_config, num_cache_servers, total_seconds)
        backend_active_cost  ==
            MissRateScaled(ActiveCost(system_config, backend_config, num_backend_servers, total_seconds),
                           cache_hit_rate)
        frontend_idle_cost == IdleCost(system_config, frontend_config, num_frontend_servers, total_seconds)
        cache_idle_cost    == IdleCost(system_config, cache_config, num_cache_servers, total_seconds)
        backend_idle_cost  ==
            MissRateScaled(IdleCost(system_config, backend_config, num_backend_servers, total_seconds),
                           cache_hit_rate)
        frontend_replacement_cost == ReplacementCost(frontend_config, num_frontend_servers, simulation_years)
        cache_replacement_cost    == ReplacementCost(cache_config, num_cache_servers, simulation_years)
        backend_replacement_cost  == ReplacementCost(backend_config, num_backend_servers, simulation_years)
    IN  [embodied_carbon_costs |->
             <<frontend_embodied_carbon_cost, cache_embodied_carbon_cost, backend_embodied_carbon_cost>>,
         active_costs |-> <<frontend_active_cost, cache_active_cost, backend_active_cost>>,
         idle_costs |-> <<frontend_idle_cost, cache_idle_cost, backend_idle_cost>>,
         replacement_costs |->
             <<frontend_replacement_cost, cache_replacement_cost, backend_replacement_cost>>]

(***************************************************************************)
(* The legacy variant, src/carbon_stream.py, where its formula differs.    *)
(***************************************************************************)
\* calculate_average_latency of the legacy script, its module globals
\* NETWORK_LATENCY and PROCESSING_LATENCY passed as the record `globals`.
legacy_calculate_average_latency(globals, frontend_config, cache_config, backend_config, cache_hit_rate) ==
    LET frontend_latency == RAdd(RAdd(frontend_config.latency, globals.NETWORK_LATENCY),
                                 globals.PROCESSING_LATENCY)
        cache_latency    == RAdd(RAdd(cache_config.latency, globals.NETWORK_LATENCY),
                                 globals.PROCESSING_LATENCY)
        backend_latency  == RAdd(RAdd(backend_config.latency, globals.NETWORK_LATENCY),
                                 globals.PROCESSING_LATENCY)
        amat == RAdd(RMul(cache_hit_rate, cache_latency),
                     RMul(RSub(R(1), cache_hit_rate), RAdd(cache_latency, backend_latency)))
    IN  RAdd(frontend_latency, amat)

\* The legacy script's globals: NETWORK_LATENCY = 1, PROCESSING_LATENCY = 0.5.
LegacyGlobals == [NETWORK_LATENCY |-> R(1), PROCESSING_LATENCY |-> Q(1, 2)]

\* A number of the legacy tables, kept as the decimal it is written as:
\* m * 10^e, m without trailing zeros (0.00000000013 is Dec(13, -11)).
Dec(m, e) == [m |-> m, e |-> e]

FrontendParams ==
    [LATENCY |->
         ("low_performance" :> Dec(8, -2)) @@ ("high_performance" :> Dec(1, -8)),
     THROUGHPUT |->
         ("low_performance" :> Dec(5, 0)) @@ ("high_performance" :> Dec(2, 1)),
     CARBON_COST |->
         ("low_performance" :> Dec(16, -2)) @@ ("high_performance" :> Dec(31, -2)),
     ACCESS_COST |->
         ("low_performance" :> [read |-> Dec(4, -10), write |-> Dec(4, -10)]) @@ ("high_performance" :> [read |-> Dec(87, -9), write |-> Dec(87, -9)]),
     IDLE_COST |->
         ("low_performance" :> Dec(13, -11)) @@ ("high_performance" :> Dec(87, -9)),
     LIFESPAN_YEARS |->
         ("low_performance" :> Dec(5, 0)) @@ ("high_performance" :> Dec(1, 1)),
     SIZE |->
         ("low_performance" :> Dec(384, 1)) @@ ("high_performance" :> Dec(4096, 0))]

CacheParams ==
    [LATENCY |->
         ("DRAM" :> Dec(1, -8)) @@ ("flash" :> Dec(8, -2)),
     THROUGHPUT |->
         ("DRAM" :> Dec(2, 1)) @@ ("flash" :> Dec(5, 0)),
     CARBON_COST |->
         ("DRAM" :> Dec(31, -2)) @@ ("flash" :> Dec(16, -2)),
     ACCESS_COST |->
         ("DRAM" :> [read |-> Dec(87, -9), write |-> Dec(87, -9)]) @@ ("flash" :> [read |-> Dec(4, -10), write |-> Dec(4, -10)]),
     IDLE_COST |->
         ("DRAM" :> Dec(87, -9)) @@ ("flash" :> Dec(13, -11)),
     LIFESPAN_YEARS |->
         ("DRAM" :> Dec(1, 1)) @@ ("flash" :> Dec(5, 0)),
     SIZE |->
         ("DRAM" :> Dec(4096, 0)) @@ ("flash" :> Dec(384, 1))]

BackendParams ==
    [LATENCY |->
         ("SSD" :> Dec(8, -2)) @@ ("HDD" :> Dec(416, -2)) @@ ("tape" :> Dec(1, 4)) @@ ("glass" :> Dec(1, 1)),
     THROUGHPUT |->
         ("SSD" :> Dec(5, 0)) @@ ("HDD" :> Dec(27, -2)) @@ ("tape" :> Dec(4, -1)) @@ ("glass" :> Dec(21, -2)),
     CARBON_COST |->
         ("SSD" :> Dec(16, -2)) @@ ("HDD" :> Dec(17, -4)) @@ ("tape" :> Dec(42, -5)) @@ ("glass" :> Dec(1, -4)),
     ACCESS_COST |->
         ("SSD" :> [read |-> Dec(4, -10), write |-> Dec(49, -11)]) @@ ("HDD" :> [read |-> Dec(73, -12), write |-> Dec(73, -12)]) @@ ("tape" :> [read |-> Dec(2, -12), write |-> Dec(2, -12)]) @@ ("glass" :> [read |-> Dec(1, -12), write |-> Dec(1, -11)]),
     IDLE_COST |->
         ("SSD" :> Dec(13, -11)) @@ ("HDD" :> Dec(41, -12)) @@ ("tape" :> Dec(0, 0)) @@ ("glass" :> Dec(0, 0)),
     LIFESPAN_YEARS |->
         ("SSD" :> Dec(5, 0)) @@ ("HDD" :> Dec(5, 0)) @@ ("tape" :> Dec(3, 1)) @@ ("glass" :> Dec(1, 2)),
     SIZE |->
         ("SSD" :> Dec(384, 1)) @@ ("HDD" :> Dec(18, 3)) @@ ("tape" :> Dec(18, 3)) @@ ("glass" :> Dec(7, 3))]

\* The tables ServerConfig.__init__ subscripts, in the order it does.
LegacyTables == <<"LATENCY", "THROUGHPUT", "CARBON_COST", "ACCESS_COST", "IDLE_COST",
                  "LIFESPAN_YEARS", "SIZE">>

\* Fault variant: dict.get in place of the subscripts, None for an unknown selector.
legacy_ServerConfig_get(hardware, params) ==
    LET get(table) == IF hardware \in DOMAIN params[table] THEN params[table][hardware]
                                                           ELSE "None"
    IN  Return([latency |-> get("LATENCY"), throughput |-> get("THROUGHPUT"),
                carbon_cost |-> get("CARBON_COST"), active_cost |-> get("ACCESS_COST"),
                idle_cost |-> get("IDLE_COST"), lifespan_years |-> get("LIFESPAN_YEARS"),
                size |-> get("SIZE")])

\* ServerConfig(hardware, params) of the legacy script: seven subscripts of the
\* tables of `params`; a selector that is not a key raises KeyError.
legacy_ServerConfig(hardware, params) ==
    IF \A i \in DOMAIN LegacyTables : hardware \in DOMAIN params[LegacyTables[i]]
    THEN Return([latency |-> params.LATENCY[hardware],
                 throughput |-> params.THROUGHPUT[hardware],
                 carbon_cost |-> params.CARBON_COST[hardware],
                 active_cost |-> params.ACCESS_COST[hardware],
                 idle_cost |-> params.IDLE_COST[hardware],
                 lifespan_years |-> params.LIFESPAN_YEARS[hardware],
                 size |-> params.SIZE[hardware]])
    ELSE Raise("KeyError")

\* The three parameter classes by the tier they describe.
LegacyParams == [frontend |-> FrontendParams, cache |-> CacheParams, backend |-> BackendParams]

\* choices= of --frontend, --cache, --backend.
LegacyChoices ==
    [frontend |-> {"low_performance", "high_performance"},
     cache |-> {"DRAM", "flash"},
     backend |-> {"SSD", "HDD", "tape", "glass"}]

\* Selectors a caller can write: those of the three tiers and two of none.
LegacySelectors ==
    {"low_performance", "high_performance", "DRAM", "flash", "SSD", "HDD", "tape", "glass",
     "NVMe", ""}

(***************************************************************************)
(* IEEE-754 binary64 arithmetic, for the sizing and throughput formulas,    *)
(* whose results sit on a rounding boundary (ceil(t/q) * q against t).      *)
(* Naturals of any size are little-endian sequences of limbs below Base     *)
(* with no leading zero limb; a double is m * 2^e with 2^52 <= m < 2^53,    *)
(* or zero.  Only positive numbers occur.                                   *)
(***************************************************************************)
Base == 2^15

RECURSIVE BigNorm(_)
BigNorm(a) ==
    IF a = <<>> THEN a
    ELSE IF a[Len(a)] = 0 THEN BigNorm(SubSeq(a, 1, Len(a) - 1)) ELSE a

RECURSIVE BigOf(_)
BigOf(i) == IF i = 0 THEN <<>> ELSE <<i % Base>> \o BigOf(i \div Base)

RECURSIVE BigAddC(_, _, _)
BigAddC(a, b, c) ==
    IF a = <<>> /\ b = <<>>
    THEN (IF c = 0 THEN <<>> ELSE <<c>>)
    ELSE LET x == IF a = <<>> THEN 0 ELSE a[1]
             y == IF b = <<>> THEN 0 ELSE b[1]
             s == x + y + c
         IN  <<s % Base>> \o BigAddC(IF a = <<>> THEN a ELSE Tail(a),
                                     IF b = <<>> THEN b ELSE Tail(b), s \div Base)

BigAdd(a, b) == BigAddC(a, b, 0)

\* a - b for a >= b.
RECURSIVE BigSubB(_, _, _)
BigSubB(a, b, w) ==
    IF a = <<>> THEN <<>>
    ELSE LET y == IF b = <<>> THEN 0 ELSE b[1]
             d == a[1] - y - w
         IN  <<IF d < 0 THEN d + Base ELSE d>>
             \o BigSubB(Tail(a), IF b = <<>> THEN b ELSE Tail(b), IF d < 0 THEN 1 ELSE 0)

BigSub(a, b) == BigNorm(BigSubB(a, b, 0))

RECURSIVE BigCmpFrom(_, _, _)
BigCmpFrom(a, b, i) ==
    IF i = 0 THEN 0
    ELSE IF a[i] # b[i] THEN (IF a[i] < b[i] THEN -1 ELSE 1)
    ELSE BigCmpFrom(a, b, i - 1)

\* -1, 0 or 1 as a < b, a = b or a > b.
BigCmp(a, b) ==
    IF Len(a) # Len(b) THEN (IF Len(a) < Len(b) THEN -1 ELSE 1)
    ELSE BigCmpFrom(a, b, Len(a))

RECURSIVE BigMulSmallC(_, _, _)
BigMulSmallC(a, k, c) ==
    IF a = <<>>
    THEN (IF c = 0 THEN <<>> ELSE <<c>>)
    ELSE LET s == a[1] * k + c
         IN  <<s % Base>> \o BigMulSmallC(Tail(a), k, s \div Base)

\* a * k for 0 <= k < Base.
BigMulSmall(a, k) == IF k = 0 THEN <<>> ELSE BigMulSmallC(a, k, 0)

RECURSIVE BigMul(_, _)
BigMul(a, b) ==
    IF a = <<>> \/ b = <<>> THEN <<>>
    ELSE LET rest == BigMul(a, Tail(b))
         IN  BigAdd(BigMulSmall(a, b[1]), IF rest = <<>> THEN rest ELSE <<0>> \o rest)

\* a * 2^k.
BigShl(a, k) ==
    IF a = <<>> THEN a
    ELSE [i \in 1 .. (k \div 15) |-> 0] \o BigMulSmall(a, 2^(k % 15))

BigPow2(k) == BigShl(<<1>>, k)

RECURSIVE BigPow10(_)
BigPow10(k) == IF k = 0 THEN <<1>> ELSE BigMulSmall(BigPow10(k - 1), 10)

RECURSIVE SmallBitLen(_)
SmallBitLen(x) == IF x = 0 THEN 0 ELSE 1 + SmallBitLen(x \div 2)

BigBitLen(a) == IF a = <<>> THEN 0 ELSE 15 * (Len(a) - 1) + SmallBitLen(a[Len(a)])

\* Bit i of a, bit 0 the lowest.
BigBit(a, i) ==
    IF (i \div 15) + 1 > Len(a) THEN 0 ELSE (a[(i \div 15) + 1] \div 2^(i % 15)) % 2

\* Short division of the limbs a[i], ..., a[1] by 0 < k < Base, r the remainder of
\* the limbs above.
RECURSIVE BigDivSmallFrom(_, _, _, _)
BigDivSmallFrom(a, k, i, r) ==
    IF i = 0 THEN [q |-> <<>>, r |-> r]
    ELSE LET cur  == r * Base + a[i]
             rest == BigDivSmallFrom(a, k, i - 1, cur % k)
         IN  [q |-> Append(rest.q, cur \div k), r |-> rest.r]

BigDivSmall(a, k) ==
    LET s == BigDivSmallFrom(a, k, Len(a), 0)
    IN  [q |-> BigNorm(s.q), r |-> BigOf(s.r)]

\* Quotient and remainder of a by 2^j.
BigDivPow2(a, j) ==
    LET limbs == j \div 15
    IN  IF Len(a) <= limbs THEN [q |-> <<>>, r |-> a]
        ELSE LET dm == BigDivSmall(SubSeq(a, limbs + 1, Len(a)), 2^(j % 15))
             IN  [q |-> dm.q, r |-> BigNorm(SubSeq(a, 1, limbs) \o dm.r)]

\* One bit of the long division of n by d: s holds the quotient and the remainder
\* of the bits above bit i.
RECURSIVE BigDivStep(_, _, _, _)
BigDivStep(n, d, i, s) ==
    IF i < 0 \/ Len(s.q) < 0  \* never the second: it has s evaluated before the next bit
    THEN s
    ELSE LET r2 == BigMulSmallC(s.r, 2, BigBit(n, i))
             ge == BigCmp(r2, d) >= 0
         IN  BigDivStep(n, d, i - 1,
                        [q |-> BigMulSmallC(s.q, 2, IF ge THEN 1 ELSE 0),
                         r |-> IF ge THEN BigSub(r2, d) ELSE r2])

\* Quotient and remainder of n by d # 0.
BigDivMod(n, d) ==
    IF Len(d) = 1 THEN BigDivSmall(n, d[1])
    ELSE BigDivStep(n, d, BigBitLen(n) - 1, [q |-> <<>>, r |-> <<>>])

FZero == [m |-> <<>>, e |-> 0]

\* The double nearest to n / d (n >= 0, d > 0), ties to the even mantissa: the
\* rounding of every binary64 operation and of float("..."). The quotient is taken
\* to 55 or 56 bits, the last two or three of which, with the remainder, decide.
FRound(n, d) ==
    IF n = <<>> THEN FZero
    ELSE LET k    == 55 - (BigBitLen(n) - BigBitLen(d))
             cut  == IF k >= 0 THEN [q |-> BigShl(n, k), r |-> <<>>] ELSE BigDivPow2(n, -k)
             dm   == BigDivMod(cut.q, d)
             rest == dm.r # <<>> \/ cut.r # <<>>
             x    == BigBitLen(dm.q) - 53
             low  == dm.q[1] % 2^x
             high == BigDivPow2(dm.q, x).q
             half == 2^(x - 1)
             up   == \/ low > half
                     \/ low = half /\ rest
                     \/ low = half /\ ~rest /\ high[1] % 2 = 1
             m    == IF up THEN BigAdd(high, <<1>>) ELSE high
         IN  IF BigBitLen(m) = 54
             THEN [m |-> BigPow2(52), e |-> x - k + 1]
             ELSE [m |-> m, e |-> x - k]

\* a * 2^k, exact.
FScale(a, k) == IF a.m = <<>> THEN a ELSE [a EXCEPT !.e = @ + k]

\* float(i) for an int i >= 0, and float of the decimal literal m * 10^e.
FOfInt(i) == FRound(BigOf(i), <<1>>)

FOfDec(dec) ==
    IF dec.e >= 0 THEN FRound(BigMul(BigOf(dec.m), BigPow10(dec.e)), <<1>>)
                  ELSE FRound(BigOf(dec.m), BigPow10(-dec.e))

\* a / b (b # 0) and a * b, correctly rounded.
FDiv(a, b) == FScale(FRound(a.m, b.m), a.e - b.e)

FMul(a, b) == FScale(FRound(BigMul(a.m, b.m), <<1>>), a.e + b.e)

\* numpy.ceil of a >= 0, exact.
FCeil(a) ==
    IF a.e >= 0 THEN a
    ELSE LET dm == BigDivPow2(a.m, -a.e)
         IN  FRound(IF dm.r = <<>> THEN dm.q ELSE BigAdd(dm.q, <<1>>), <<1>>)

\* -1, 0 or 1 as a < b, a = b or a > b.
FCmp(a, b) ==
    LET e == IF a.e < b.e THEN a.e ELSE b.e
    IN  BigCmp(BigShl(a.m, a.e - e), BigShl(b.m, b.e - e))

\* Python's min(a, b): b only when b < a.
FMin(a, b) == IF FCmp(b, a) < 0 THEN b ELSE a

(***************************************************************************)
(* State: invocations of main() (one per process slot), the configuration  *)
(* files, and the output file they append to.                              *)
(***************************************************************************)
VARIABLES
    pc,         \* per process: the statement of main() it is about to execute
    args,       \* per process: the namespace parse_args returned
    config,     \* per process: system_config, frontend_config, cache_config, backend_config
    local,      \* per process: the other local variables of main() assigned so far
    exit_code,  \* per process: the exit status of its invocation, -1 while it has none
    console,    \* per process: the diagnostics it printed
    disk,       \* the disk image holding the configuration files, by name
    output,     \* the file at --output: whether it exists, and its rows
    output0,    \* the file at --output before the first invocation (history)
    runs,       \* invocations started so far
    exits,      \* the exit statuses of the invocations that ended, in order (history)
    removed     \* the output files deleted so far, each with the invocation it held (history)

vars == <<pc, args, config, local, exit_code, console, disk, output, output0, runs, exits,
          removed>>

\* The header row of the results file, in column order.
HEADER ==
    <<"SLO Latency", "SLO Throughput", "Frontend", "Cache", "Backend",
      "Average Latency", "Peak Throughput", "Cumulative Carbon Cost",
      "Frontend Servers", "Cache Servers", "Backend Servers", "Cache Hit Rate",
      "Embodied Cost", "Active Cost", "Idle Cost", "Replacement Cost",
      "Frontend Capacity (GB)", "Cache Capacity (GB)", "Backend Capacity (GB)",
      "Total Capacity (GB)", "Simulation Years">>

HeaderRow   == [kind |-> "header", cols |-> HEADER]
DataRow(cs) == [kind |-> "data", cols |-> cs]

\* The column of a data row under the header's name for it.
Column(row, name) == row.cols[CHOOSE i \in 1 .. Len(HEADER) : HEADER[i] = name]

NoArgs   == [slo_latency |-> 0, slo_throughput |-> 0, system |-> "", frontend |-> "",
             cache |-> "", backend |-> "", simulation_years |-> 0]
NoConfig == [loaded |-> FALSE]
NoLocals == [assigned |-> {}]

\* Assignment of main()'s local variables: the record `new` of names and values.
Assign(locals, new) ==
    [(new @@ locals) EXCEPT !.assigned = locals.assigned \cup (DOMAIN new)]

\* The output path before the first invocation: absent, or an existing empty file.
OutputAbsent == [exists |-> FALSE, rows |-> <<>>]
OutputEmpty  == [exists |-> TRUE, rows |-> <<>>]

InitProcs(procs) ==
    /\ pc = [p \in procs |-> "idle"]
    /\ args = [p \in procs |-> NoArgs]
    /\ config = [p \in procs |-> NoConfig]
    /\ local = [p \in procs |-> NoLocals]
    /\ exit_code = [p \in procs |-> -1]
    /\ console = [p \in procs |-> <<>>]
    /\ disk = "workdir"
    /\ output \in {OutputAbsent, OutputEmpty}
    /\ output0 = output
    /\ runs = 0
    /\ exits = <<>>
    /\ removed = <<>>

Init == InitProcs({1})

\* python carbon_stream.py ...: a new process parses its flags (lines 155-164).
Invoke(p, argset, max_runs) ==
    /\ pc[p] \in {"idle", "exited"}
    /\ runs < max_runs
    /\ \E a \in argset : args' = [args EXCEPT ![p] = a]
    /\ pc' = [pc EXCEPT ![p] = "load_configs"]
    /\ config' = [config EXCEPT ![p] = NoConfig]
    /\ local' = [local EXCEPT ![p] = NoLocals]
    /\ exit_code' = [exit_code EXCEPT ![p] = -1]
    /\ console' = [console EXCEPT ![p] = <<>>]
    /\ runs' = runs + 1
    /\ UNCHANGED <<disk, output, output0, exits, removed>>

\* The process ends: exit(code), an uncaught exception (status 1), or the end of main (0).
Terminate(p, code, said) ==
    /\ pc' = [pc EXCEPT ![p] = "exited"]
    /\ exit_code' = [exit_code EXCEPT ![p] = code]
    /\ console' = [console EXCEPT ![p] = @ \o said]
    /\ exits' = Append(exits, code)

Traceback(e) == <<"Traceback (most recent call last)", e>>

\* The calls of `calls` that ran: all of them, or those up to the first that did
\* not return.
RECURSIVE Ran(_)
Ran(calls) ==
    IF calls = <<>> THEN <<>>
    ELSE IF Head(calls).how # "return" THEN <<Head(calls)>>
    ELSE <<Head(calls)>> \o Ran(Tail(calls))

RECURSIVE Logs(_)
Logs(calls) == IF calls = <<>> THEN <<>> ELSE Head(calls).log \o Logs(Tail(calls))

\* Lines 172-176: the four loaded dicts are printed.
LoadedPrints(jsons) ==
    <<<<"Loaded System Config", jsons[1]>>, <<"Loaded Frontend Config", jsons[2]>>,
      <<"Loaded Cache Config", jsons[3]>>, <<"Loaded Backend Config", jsons[4]>>>>

\* Lines 179-184: the config objects `made` of the dicts that loaded, after `said`
\* was printed; a KeyError ends the process.
BuildConfigs(p, said, made) ==
    IF made[Len(made)].how = "raise"
    THEN /\ Terminate(p, 1, said \o <<Traceback(made[Len(made)].exception)>>)
         /\ UNCHANGED config
    ELSE /\ config' = [config EXCEPT ![p] =
                          [loaded |-> TRUE,
                           system |-> made[1].value,
                           frontend |-> made[2].value,
                           cache |-> made[3].value,
                           backend |-> made[4].value]]
         /\ pc' = [pc EXCEPT ![p] = "size_tiers"]
         /\ console' = [console EXCEPT ![p] = @ \o said]
         /\ UNCHANGED <<exit_code, exits>>

\* Lines 166-184 once the load_config calls `ran` have run: an exit or an uncaught
\* exception ends the process, else the dicts are printed and the objects built.
LoadOutcome(p, ran) ==
    CASE ran[Len(ran)].how = "exit" ->
             /\ Terminate(p, ran[Len(ran)].code, Logs(ran))
             /\ UNCHANGED config
      [] ran[Len(ran)].how = "raise" ->
             /\ Terminate(p, 1, Logs(ran) \o <<Traceback(ran[Len(ran)].exception)>>)
             /\ UNCHANGED config
      [] OTHER ->
             BuildConfigs(p, Logs(ran) \o LoadedPrints([i \in 1 .. 4 |-> ran[i].value]),
                          Ran(<<NewSystemConfig(ran[1].value), NewServerConfig(ran[2].value),
                                NewServerConfig(ran[3].value), NewServerConfig(ran[4].value)>>))

\* Lines 166-184: the four files are loaded in order and printed, then the config
\* objects are built in order; an exit or an uncaught exception ends the process.
LoadConfigs(p) ==
    /\ pc[p] = "load_configs"
    /\ LoadOutcome(p, Ran(<<load_config(disk, args[p].system, DEFAULT_SYSTEM_CONFIG),
                            load_config(disk, args[p].frontend, DEFAULT_FRONTEND_CONFIG),
                            load_config(disk, args[p].cache, DEFAULT_CACHE_CONFIG),
                            load_config(disk, args[p].backend, DEFAULT_BACKEND_CONFIG)>>))
    /\ UNCHANGED <<args, local, disk, output, output0, runs, removed>>

\* Lines 186-189: the three tiers are sized in order; a raise ends the process.
SizeTiers(p) ==
    /\ pc[p] = "size_tiers"
    /\ LET t   == R(args[p].slo_throughput)
           ran == Ran(<<calculate_servers_needed(t, config[p].frontend.throughput),
                        calculate_servers_needed(t, config[p].cache.throughput),
                        calculate_servers_needed(t, config[p].backend.throughput)>>)
           names == <<"num_frontend_servers", "num_cache_servers", "num_backend_servers">>
           got == [i \in {j \in 1 .. Len(ran) : ran[j].how = "return"} |-> ran[i].value]
           new == [v \in {names[i] : i \in DOMAIN got} |->
                      got[CHOOSE i \in DOMAIN got : names[i] = v]]
       IN  /\ local' = [local EXCEPT ![p] = Assign(@, new)]
           /\ IF ran[Len(ran)].how = "raise"
              THEN Terminate(p, 1, <<Traceback(ran[Len(ran)].exception)>>)
              ELSE /\ pc' = [pc EXCEPT ![p] = "hit_rate"]
                   /\ UNCHANGED <<exit_code, console, exits>>
    /\ UNCHANGED <<args, config, disk, output, output0, runs, removed>>

\* A step of main() that assigns the locals `new` and goes on to statement `next`.
Step(p, new, next) ==
    /\ local' = [local EXCEPT ![p] = Assign(@, new)]
    /\ pc' = [pc EXCEPT ![p] = next]
    /\ UNCHANGED <<args, config, exit_code, console, disk, output, output0, runs, exits, removed>>

\* Line 192.
HitRate(p) ==
    /\ pc[p] = "hit_rate"
    /\ Step(p, [cache_hit_rate |->
                   calculate_cache_hit_rate(config[p].system, config[p].cache,
                                            local[p].num_cache_servers)],
            "throughput")

\* Lines 194-200.
Throughput(p) ==
    /\ pc[p] = "throughput"
    /\ LET frontend_total_throughput ==
               calculate_total_throughput(config[p].frontend, local[p].num_frontend_servers)
           cache_total_throughput ==
               calculate_total_throughput(config[p].cache, local[p].num_cache_servers)
           backend_total_throughput ==
               calculate_total_throughput(config[p].backend, local[p].num_backend_servers)
       IN  Step(p, [frontend_total_throughput |-> frontend_total_throughput,
                    cache_total_throughput |-> cache_total_throughput,
                    backend_total_throughput |-> backend_total_throughput,
                    peak_throughput |->
                        calculate_peak_throughput(frontend_total_throughput,
                                                  cache_total_throughput,
                                                  backend_total_throughput)],
                "latency")

\* Line 203.
Latency(p) ==
    /\ pc[p] = "latency"
    /\ Step(p, [avg_latency |->
                   calculate_average_latency(config[p].system, config[p].frontend,
                                             config[p].cache, config[p].backend,
                                             local[p].cache_hit_rate)],
            "carbon_costs")

\* Lines 206-208.
CarbonCosts(p) ==
    /\ pc[p] = "carbon_costs"
    /\ Step(p, calculate_individual_carbon_costs(
                   config[p].system, config[p].frontend, config[p].cache, config[p].backend,
                   local[p].num_frontend_servers, local[p].num_cache_servers,
                   local[p].num_backend_servers, local[p].cache_hit_rate,
                   R(args[p].simulation_years)),
            "totals")

\* Fault variant: the replacement cost left out of a tier's cumulative cost.
TierCumulative_no_replacement(l, i) ==
    RAdd(RAdd(l.embodied_carbon_costs[i], l.active_costs[i]), l.idle_costs[i])

\* The cumulative cost of the tier at index i of the four lists (lines 216-218).
TierCumulative(l, i) ==
    RAdd(RAdd(RAdd(l.embodied_carbon_costs[i], l.active_costs[i]), l.idle_costs[i]),
         l.replacement_costs[i])

\* Lines 210-220.
Totals(p) ==
    /\ pc[p] = "totals"
    /\ LET l == local[p]
           frontend_cumulative_carbon_cost == TierCumulative(l, 1)
           cache_cumulative_carbon_cost    == TierCumulative(l, 2)
           backend_cumulative_carbon_cost  == TierCumulative(l, 3)
       IN  Step(p, [embodied_carbon_cost |-> RSum(l.embodied_carbon_costs),
                    active_cost |-> RSum(l.active_costs),
                    idle_cost |-> RSum(l.idle_costs),
                    replacement_cost |-> RSum(l.replacement_costs),
                    frontend_cumulative_carbon_cost |-> frontend_cumulative_carbon_cost,
                    cache_cumulative_carbon_cost |-> cache_cumulative_carbon_cost,
                    backend_cumulative_carbon_cost |-> backend_cumulative_carbon_cost,
                    cumulative_carbon_cost |->
                        RAdd(RAdd(frontend_cumulative_carbon_cost, cache_cumulative_carbon_cost),
                             backend_cumulative_carbon_cost)],
                "check_exists")

\* Line 236: file_exists = os.path.isfile(args.output).
CheckExists(p) ==
    /\ pc[p] = "check_exists"
    /\ Step(p, [file_exists |-> output.exists], "open_output")

\* Line 237: open(args.output, 'a') creates the file when it is absent.
OpenOutput(p) ==
    /\ pc[p] = "open_output"
    /\ output' = [output EXCEPT !.exists = TRUE]
    /\ pc' = [pc EXCEPT ![p] = "write_rows"]
    /\ UNCHANGED <<args, config, local, exit_code, console, disk, output0, runs, exits, removed>>

\* Fault variant: the row stamped with the number of the invocation.
ResultRow_numbered(a, c, l) ==
    <<R(a.slo_latency), R(a.slo_throughput), c.frontend.name, c.cache.name, c.backend.name,
      l.avg_latency, l.peak_throughput, l.cumulative_carbon_cost,
      l.num_frontend_servers, l.num_cache_servers, l.num_backend_servers, l.cache_hit_rate,
      l.embodied_carbon_cost, l.active_cost, l.idle_cost, l.replacement_cost,
      RMul(l.num_frontend_servers, c.frontend.capacity),
      RMul(l.num_cache_servers, c.cache.capacity),
      RMul(l.num_backend_servers, c.backend.capacity),
      R(runs), R(a.simulation_years)>>

\* The list main() hands to writer.writerow for its data row (lines 247-262).
ResultRow(a, c, l) ==
    LET frontend_capacity == RMul(l.num_frontend_servers, c.frontend.capacity)
        cache_capacity    == RMul(l.num_cache_servers, c.cache.capacity)
        backend_capacity  == RMul(l.num_backend_servers, c.backend.capacity)
        total_storage_capacity == RAdd(RAdd(frontend_capacity, cache_capacity), backend_capacity)
    IN  <<R(a.slo_latency), R(a.slo_throughput), c.frontend.name, c.cache.name, c.backend.name,
          l.avg_latency, l.peak_throughput, l.cumulative_carbon_cost,
          l.num_frontend_servers, l.num_cache_servers, l.num_backend_servers, l.cache_hit_rate,
          l.embodied_carbon_cost, l.active_cost, l.idle_cost, l.replacement_cost,
          frontend_capacity, cache_capacity, backend_capacity,
          total_storage_capacity, R(a.simulation_years)>>

\* Fault variant: the rows written only when the latency SLO is met.
RowsWritten_only_when_slo_met(a, c, l) ==
    IF RLe(l.avg_latency, R(a.slo_latency))
    THEN (IF l.file_exists THEN <<>> ELSE <<HeaderRow>>) \o <<DataRow(ResultRow(a, c, l))>>
    ELSE <<>>

\* Fault variant: the header decided when the rows are written, by the file being
\* empty then.
RowsWritten_header_if_empty(a, c, l) ==
    (IF output.rows # <<>> THEN <<>> ELSE <<HeaderRow>>) \o <<DataRow(ResultRow(a, c, l))>>

\* Fault variant: the header written by every invocation.
RowsWritten_always_header(a, c, l) == <<HeaderRow, DataRow(ResultRow(a, c, l))>>

\* The rows the with-block writes: the header unless the file existed at line 236,
\* then the data row.
RowsWritten(a, c, l) ==
    (IF l.file_exists THEN <<>> ELSE <<HeaderRow>>) \o <<DataRow(ResultRow(a, c, l))>>

\* Lines 238-262: the rows are written and, on leaving the with-block, appended to
\* the file; main() returns and the process exits with 0.
WriteRows(p) ==
    /\ pc[p] = "write_rows"
    /\ output' = [output EXCEPT !.rows = @ \o RowsWritten(args[p], config[p], local[p])]
    /\ Terminate(p, 0, <<>>)
    /\ UNCHANGED <<args, config, local, disk, output0, runs, removed>>

\* One invocation with any flags and configuration files, statement by statement.
Next ==
    \/ \E p \in DOMAIN pc : Invoke(p, ArgsAll, 1)
    \/ \E p \in DOMAIN pc : LoadConfigs(p)
    \/ \E p \in DOMAIN pc : SizeTiers(p)
    \/ \E p \in DOMAIN pc : HitRate(p)
    \/ \E p \in DOMAIN pc : Throughput(p)
    \/ \E p \in DOMAIN pc : Latency(p)
    \/ \E p \in DOMAIN pc : CarbonCosts(p)
    \/ \E p \in DOMAIN pc : Totals(p)
    \/ \E p \in DOMAIN pc : CheckExists(p)
    \/ \E p \in DOMAIN pc : OpenOutput(p)
    \/ \E p \in DOMAIN pc : WriteRows(p)

Spec == Init /\ [][Next]_vars

\* Up to MaxRuns invocations with the default configuration files, or a backend
\* file that fails, one after the other against the same output path.
ArgsSeq ==
    [slo_latency : SloLatencies, slo_throughput : {1, 2},
     system : {ArgDefaultSystem}, frontend : {ArgDefaultFrontend}, cache : {ArgDefaultCache},
     backend : {ArgDefaultBackend, "zero.json", "missing.json"}, simulation_years : {10}]

NextSeq ==
    \/ \E p \in DOMAIN pc : Invoke(p, ArgsSeq, MaxRuns)
    \/ \E p \in DOMAIN pc : LoadConfigs(p)
    \/ \E p \in DOMAIN pc : SizeTiers(p)
    \/ \E p \in DOMAIN pc : HitRate(p)
    \/ \E p \in DOMAIN pc : Throughput(p)
    \/ \E p \in DOMAIN pc : Latency(p)
    \/ \E p \in DOMAIN pc : CarbonCosts(p)
    \/ \E p \in DOMAIN pc : Totals(p)
    \/ \E p \in DOMAIN pc : CheckExists(p)
    \/ \E p \in DOMAIN pc : OpenOutput(p)
    \/ \E p \in DOMAIN pc : WriteRows(p)

SpecSeq == Init /\ [][NextSeq]_vars

\* --slo_latency values on either side of the latencies the configurations give.
LoadSloLatencies == {1, 100}

\* What a path flag can hold: nothing (--system ""), the argparse default, a path
\* that does not resolve, a file that is not JSON, a JSON file without the keys.
LoadPaths(arg_default) == {"", arg_default, "missing.json", "broken.json", "incomplete.json"}

ArgsLoad ==
    [slo_latency : LoadSloLatencies, slo_throughput : {2},
     system : LoadPaths(ArgDefaultSystem), frontend : LoadPaths(ArgDefaultFrontend),
     cache : LoadPaths(ArgDefaultCache),
     backend : LoadPaths(ArgDefaultBackend) \cup {"zero.json"}, simulation_years : {10}]

\* One invocation in any of the directories.
InitLoad ==
    /\ pc = [p \in {1} |-> "idle"]
    /\ args = [p \in {1} |-> NoArgs]
    /\ config = [p \in {1} |-> NoConfig]
    /\ local = [p \in {1} |-> NoLocals]
    /\ exit_code = [p \in {1} |-> -1]
    /\ console = [p \in {1} |-> <<>>]
    /\ disk \in DiskImages
    /\ output \in {OutputAbsent, OutputEmpty}
    /\ output0 = output
    /\ runs = 0
    /\ exits = <<>>
    /\ removed = <<>>

NextLoad ==
    \/ \E p \in DOMAIN pc : Invoke(p, ArgsLoad, 1)
    \/ \E p \in DOMAIN pc : LoadConfigs(p)
    \/ \E p \in DOMAIN pc : SizeTiers(p)
    \/ \E p \in DOMAIN pc : HitRate(p)
    \/ \E p \in DOMAIN pc : Throughput(p)
    \/ \E p \in DOMAIN pc : Latency(p)
    \/ \E p \in DOMAIN pc : CarbonCosts(p)
    \/ \E p \in DOMAIN pc : Totals(p)
    \/ \E p \in DOMAIN pc : CheckExists(p)
    \/ \E p \in DOMAIN pc : OpenOutput(p)
    \/ \E p \in DOMAIN pc : WriteRows(p)

SpecLoad == InitLoad /\ [][NextLoad]_vars

\* rm of the output file while no invocation is running; the file is kept, with the
\* flags and the exit status of the invocation that ran last, in `removed`.
RemoveOutput(p) ==
    /\ pc[p] \in {"idle", "exited"}
    /\ output.exists
    /\ removed' = Append(removed, [args |-> args[p], exit_code |-> exit_code[p],
                                   rows |-> output.rows])
    /\ output' = OutputAbsent
    /\ UNCHANGED <<pc, args, config, local, exit_code, console, disk, output0, runs, exits>>

\* Flags that differ in the SLO and in the backend file.
ArgsTwice ==
    [slo_latency : SloLatencies, slo_throughput : {1, 2},
     system : {ArgDefaultSystem}, frontend : {ArgDefaultFrontend}, cache : {ArgDefaultCache},
     backend : {ArgDefaultBackend, "tape.json"}, simulation_years : {10}]

\* Up to MaxRuns invocations, each started while the output path does not exist.
NextTwice ==
    \/ \E p \in DOMAIN pc : ~output.exists /\ Invoke(p, ArgsTwice, MaxRuns)
    \/ \E p \in DOMAIN pc : LoadConfigs(p)
    \/ \E p \in DOMAIN pc : SizeTiers(p)
    \/ \E p \in DOMAIN pc : HitRate(p)
    \/ \E p \in DOMAIN pc : Throughput(p)
    \/ \E p \in DOMAIN pc : Latency(p)
    \/ \E p \in DOMAIN pc : CarbonCosts(p)
    \/ \E p \in DOMAIN pc : Totals(p)
    \/ \E p \in DOMAIN pc : CheckExists(p)
    \/ \E p \in DOMAIN pc : OpenOutput(p)
    \/ \E p \in DOMAIN pc : WriteRows(p)
    \/ \E p \in DOMAIN pc : RemoveOutput(p)

SpecTwice == Init /\ [][NextTwice]_vars

\* Two processes started once each, with the default files, told apart by their SLO.
ArgsPar ==
    [slo_latency : SloLatencies, slo_throughput : {1, 2},
     system : {ArgDefaultSystem}, frontend : {ArgDefaultFrontend}, cache : {ArgDefaultCache},
     backend : {ArgDefaultBackend}, simulation_years : {10}]

InitPar == InitProcs({1, 2})

\* Two invocations running at the same time against the same output path: the
\* statements of the two processes interleave in any order.
NextPar ==
    \/ \E p \in DOMAIN pc : pc[p] = "idle" /\ Invoke(p, ArgsPar, 2)
    \/ \E p \in DOMAIN pc : LoadConfigs(p)
    \/ \E p \in DOMAIN pc : SizeTiers(p)
    \/ \E p \in DOMAIN pc : HitRate(p)
    \/ \E p \in DOMAIN pc : Throughput(p)
    \/ \E p \in DOMAIN pc : Latency(p)
    \/ \E p \in DOMAIN pc : CarbonCosts(p)
    \/ \E p \in DOMAIN pc : Totals(p)
    \/ \E p \in DOMAIN pc : CheckExists(p)
    \/ \E p \in DOMAIN pc : OpenOutput(p)
    \/ \E p \in DOMAIN pc : WriteRows(p)

SpecPar == InitPar /\ [][NextPar]_vars

\* The command lines of the legacy script: any selector for each tier.
ArgvLegacy ==
    [slo_latency : SloLatencies, slo_throughput : {1}, frontend : LegacySelectors,
     cache : LegacySelectors, backend : LegacySelectors, simulation_years : {10}]

\* Legacy main(), lines 238-246: parse_args rejects a selector that is not among the
\* flag's choices with a usage error and exit status 2.
LegacyInvoke(p) ==
    /\ pc[p] = "idle"
    /\ runs < 1
    /\ runs' = runs + 1
    /\ \E argv \in ArgvLegacy :
           LET bad == {tier \in DOMAIN LegacyChoices : argv[tier] \notin LegacyChoices[tier]}
           IN  IF bad = {}
               THEN /\ args' = [args EXCEPT ![p] = argv]
                    /\ pc' = [pc EXCEPT ![p] = "legacy_configs"]
                    /\ UNCHANGED <<exit_code, console, exits>>
               ELSE /\ args' = [args EXCEPT ![p] = argv]
                    /\ Terminate(p, 2, <<<<"error: argument: invalid choice", bad>>>>)
    /\ UNCHANGED <<config, local, disk, output, output0, removed>>

\* Legacy main(), lines 249-251: the three profiles are resolved in order.
LegacyConfigs(p) ==
    /\ pc[p] = "legacy_configs"
    /\ LET made == Ran(<<legacy_ServerConfig(args[p].frontend, FrontendParams),
                         legacy_ServerConfig(args[p].cache, CacheParams),
                         legacy_ServerConfig(args[p].backend, BackendParams)>>)
       IN  IF made[Len(made)].how = "raise"
           THEN /\ Terminate(p, 1, <<Traceback(made[Len(made)].exception)>>)
                /\ UNCHANGED config
           ELSE /\ config' = [config EXCEPT ![p] =
                                 [loaded |-> TRUE, frontend |-> made[1].value,
                                  cache |-> made[2].value, backend |-> made[3].value]]
                /\ pc' = [pc EXCEPT ![p] = "legacy_size_tiers"]
                /\ UNCHANGED <<exit_code, console, exits>>
    /\ UNCHANGED <<args, local, disk, output, output0, runs, removed>>

\* A caller of the class outside main(): ServerConfig(hardware, params) for any
\* selector and any of the three parameter classes; the outcome is kept.
LegacyResolve(p) ==
    /\ pc[p] = "idle"
    /\ \E hardware \in LegacySelectors : \E tier \in DOMAIN LegacyParams :
           local' = [local EXCEPT ![p] =
                        Assign(@, [hardware |-> hardware, tier |-> tier,
                                   outcome |-> legacy_ServerConfig(hardware, LegacyParams[tier])])]
    /\ pc' = [pc EXCEPT ![p] = "resolved"]
    /\ UNCHANGED <<args, config, exit_code, console, disk, output, output0, runs, exits, removed>>

\* The legacy script up to its resolved profiles.
NextLegacy ==
    \/ \E p \in DOMAIN pc : LegacyInvoke(p)
    \/ \E p \in DOMAIN pc : LegacyConfigs(p)
    \/ \E p \in DOMAIN pc : LegacyResolve(p)

SpecLegacy == Init /\ [][NextLegacy]_vars

(***************************************************************************)
(* The sizing and throughput lines of main() in binary64. argparse gives   *)
(* --slo_throughput as an int, json.load gives each "throughput" as the    *)
(* double nearest to its literal, and /, numpy.ceil, * and min then work   *)
(* on doubles (lines 75, 67, 71).                                          *)
(***************************************************************************)
\* Largest --slo_throughput of the binary64 runs.
MaxFloatSlo == 30

\* The "throughput" literals in the configuration files of the binary64 runs.
FloatThroughputs == {Dec(29, -2), Dec(4, -1), Dec(5, 0)}

\* Line 75 sizing for one request per second more.
calculate_servers_needed_float_one_more(throughput, config_throughput) ==
    FCeil(FDiv(FOfInt(throughput + 1), config_throughput))

\* Line 75 with the quotient rounded down instead of up.
calculate_servers_needed_float_floor(throughput, config_throughput) ==
    LET a == FDiv(FOfInt(throughput), config_throughput)
    IN  IF a.e >= 0 THEN a ELSE FRound(BigDivPow2(a.m, -a.e).q, <<1>>)

\* Line 75: np.ceil(throughput / config_throughput), an int over a double.
calculate_servers_needed_float(throughput, config_throughput) ==
    FCeil(FDiv(FOfInt(throughput), config_throughput))

\* Line 67: config.throughput * num_servers, a double times a numpy.float64.
calculate_total_throughput_float(conf, num_servers) == FMul(conf.throughput, num_servers)

\* Line 71: min() of the three products.
calculate_peak_throughput_float(frontend_total_throughput, cache_total_throughput, backend_total_throughput) ==
    FMin(FMin(frontend_total_throughput, cache_total_throughput), backend_total_throughput)

\* Lines 155-184 of a run whose flags and files are all valid: the parsed SLO
\* throughput and the three profiles, of which only "throughput" is kept here.
FloatInvoke(p) ==
    /\ pc[p] = "idle"
    /\ runs < 1
    /\ runs' = runs + 1
    /\ \E t \in 1 .. MaxFloatSlo : \E f \in FloatThroughputs :
       \E c \in FloatThroughputs : \E b \in FloatThroughputs :
           /\ args' = [args EXCEPT ![p].slo_throughput = t]
           /\ config' = [config EXCEPT ![p] =
                            [loaded |-> TRUE,
                             frontend |-> [literal |-> f, throughput |-> FOfDec(f)],
                             cache |-> [literal |-> c, throughput |-> FOfDec(c)],
                             backend |-> [literal |-> b, throughput |-> FOfDec(b)]]]
    /\ pc' = [pc EXCEPT ![p] = "float_size_tiers"]
    /\ UNCHANGED <<local, exit_code, console, disk, output, output0, exits, removed>>

\* Lines 187-189. (Line 192 assigns cache_hit_rate, which lines 195-200 do not read.)
FloatSizeTiers(p) ==
    /\ pc[p] = "float_size_tiers"
    /\ Step(p, [num_frontend_servers |->
                    calculate_servers_needed_float(args[p].slo_throughput,
                                                   config[p].frontend.throughput),
                num_cache_servers |->
                    calculate_servers_needed_float(args[p].slo_throughput,
                                                   config[p].cache.throughput),
                num_backend_servers |->
                    calculate_servers_needed_float(args[p].slo_throughput,
                                                   config[p].backend.throughput)],
            "float_throughput")

\* Lines 195-200; peak_throughput is the value written to the result row at line 254.
FloatThroughput(p) ==
    /\ pc[p] = "float_throughput"
    /\ LET frontend_total_throughput ==
               calculate_total_throughput_float(config[p].frontend, local[p].num_frontend_servers)
           cache_total_throughput ==
               calculate_total_throughput_float(config[p].cache, local[p].num_cache_servers)
           backend_total_throughput ==
               calculate_total_throughput_float(config[p].backend, local[p].num_backend_servers)
       IN  Step(p, [frontend_total_throughput |-> frontend_total_throughput,
                    cache_total_throughput |-> cache_total_throughput,
                    backend_total_throughput |-> backend_total_throughput,
                    peak_throughput |->
                        calculate_peak_throughput_float(frontend_total_throughput,
                                                        cache_total_throughput,
                                                        backend_total_throughput)],
                "float_reported")

NextFloat ==
    \/ \E p \in DOMAIN pc : FloatInvoke(p)
    \/ \E p \in DOMAIN pc : FloatSizeTiers(p)
    \/ \E p \in DOMAIN pc : FloatThroughput(p)

\* The output path plays no part in these lines: it starts absent.
InitFloat == InitProcs({1}) /\ ~output.exists

SpecFloat == InitFloat /\ [][NextFloat]_vars

(***************************************************************************)
(* Properties.                                                             *)
(***************************************************************************)
TierNames  == <<"frontend", "cache", "backend">>
ServersVar == <<"num_frontend_servers", "num_cache_servers", "num_backend_servers">>

Assigned(p, v) == v \in local[p].assigned

IsPositive(a) == a.n > 0

\* The invocation of p got as far as emitting its result.
ReachedEmission(p) ==
    \/ pc[p] \in {"check_exists", "open_output", "write_rows"}
    \/ pc[p] = "exited" /\ exit_code[p] = 0

\* The runs in binary64 whose three tiers have been sized (lines 187-189).
FloatSized == {p \in DOMAIN pc : pc[p] \in {"float_throughput", "float_reported"}}

\* a * b and a + b of two doubles (or dyadic fractions) without any rounding.
ExactMul(a, b) == [m |-> BigMul(a.m, b.m), e |-> a.e + b.e]

ExactAdd(a, b) ==
    LET e == IF a.e < b.e THEN a.e ELSE b.e
    IN  [m |-> BigAdd(BigShl(a.m, a.e - e), BigShl(b.m, b.e - e)), e |-> e]

\* t * (1 - 2^-j) as a dyadic fraction.
LessRounding(t, j) == [m |-> BigMul(BigOf(t), BigSub(BigPow2(j), <<1>>)), e |-> -j]

\* C1 as stated: for SLO throughput t > 0 and per-server throughput q > 0 the count
\* n that calculate_servers_needed returns is the ceiling of t/q, the whole number
\* with (n - 1) * q < t <= n * q, and the product n * q the program computes (the
\* tier's total throughput, line 67) is at least t.
C1_ServersNeededIsCeiling ==
    \A p \in FloatSized : \A i \in 1 .. 3 :
        LET n == local[p][ServersVar[i]]
            t == FOfInt(args[p].slo_throughput)
            q == config[p][TierNames[i]].throughput
        IN  /\ FCeil(n) = n
            /\ FCmp(ExactMul(n, q), ExactAdd(t, q)) < 0
            /\ FCmp(t, ExactMul(n, q)) <= 0
            /\ FCmp(t, calculate_total_throughput_float(config[p][TierNames[i]], n)) <= 0

\* C1: for SLO throughput t > 0 and per-server throughput q > 0 the count n that
\* calculate_servers_needed returns is the ceiling of the rounded quotient of t by
\* q: a whole number, at least 1, with (n - 1) * q < t, so never one server too
\* many. It can be one server short of the ceiling of t/q when the quotient rounds
\* down to a whole number: n * q is at least t * (1 - 2^-53), and the product the
\* program computes is at least t * (1 - 2^-52).
C1_ServersNeededIsCeilingOfRoundedQuotient ==
    \A p \in FloatSized : \A i \in 1 .. 3 :
        LET n == local[p][ServersVar[i]]
            t == FOfInt(args[p].slo_throughput)
            q == config[p][TierNames[i]].throughput
        IN  /\ n = FCeil(FDiv(t, q))
            /\ FCeil(n) = n
            /\ FCmp(n, FOfInt(1)) >= 0
            /\ FCmp(ExactMul(n, q), ExactAdd(t, q)) < 0
            /\ FCmp(ExactMul(n, q), LessRounding(args[p].slo_throughput, 53)) >= 0
            /\ FCmp(calculate_total_throughput_float(config[p][TierNames[i]], n),
                    LessRounding(args[p].slo_throughput, 52)) >= 0

\* A frontend sized for t = 29 at q = 0.29 per server, 100 servers whose product
\* with q is below 29, beside a cache sized for t = 29 at q = 5, 6 servers.
C1_Witness ==
    \E p \in FloatSized :
        /\ args[p].slo_throughput = 29
        /\ config[p].frontend.literal = Dec(29, -2)
        /\ local[p].num_frontend_servers = FOfInt(100)
        /\ FCmp(ExactMul(local[p].num_frontend_servers, config[p].frontend.throughput),
                FOfInt(29)) < 0
        /\ config[p].cache.literal = Dec(5, 0)
        /\ local[p].num_cache_servers = FOfInt(6)

MaxCacheServers == 6

C4_ReplacementCost ==
    \A p \in DOMAIN pc : \A i \in 1 .. 3 :
        Assigned(p, "replacement_costs")
        => LET years == R(args[p].simulation_years)
               tier  == config[p][TierNames[i]]
               cost  == local[p].replacement_costs[i]
               n     == local[p][ServersVar[i]]
           IN  IF RLe(years, tier.lifespan)
               THEN REq(cost, R(0))
               ELSE \E k \in 1 .. args[p].simulation_years :
                        /\ RLe(RMul(R(k), tier.lifespan), years)
                        /\ RLt(years, RMul(R(k + 1), tier.lifespan))
                        /\ REq(cost, RMul(RMul(R(k), n), tier.embodied_cost.initial))

\* Lifespan 5 and 12 simulated years: 2 replacements of 2 frontend servers at 3 each;
\* the cache tier beside it, lifespan 10, is replaced once.
C4_Witness ==
    \E p \in DOMAIN pc :
        /\ Assigned(p, "replacement_costs")
        /\ args[p].simulation_years = 12
        /\ config[p].frontend.lifespan = R(5)
        /\ local[p].num_frontend_servers = R(2)
        /\ local[p].replacement_costs[1] = R(2 * 2 * 3)
        /\ config[p].cache.lifespan = R(10)
        /\ local[p].replacement_costs[2] = RMul(local[p].num_cache_servers, R(6))

\* The data row the invocation of p appended: the last row of the file.
LastRow == output.rows[Len(output.rows)]

C6_PeakIsMinOfAggregates ==
    \A p \in DOMAIN pc :
        Assigned(p, "peak_throughput")
        => LET l == local[p]
               aggs == <<l.frontend_total_throughput, l.cache_total_throughput,
                         l.backend_total_throughput>>
           IN  /\ \A i \in 1 .. 3 :
                      REq(aggs[i], RMul(config[p][TierNames[i]].throughput, l[ServersVar[i]]))
               /\ \A i \in 1 .. 3 : RLe(l.peak_throughput, aggs[i])
               /\ \E i \in 1 .. 3 : REq(l.peak_throughput, aggs[i])

\* Aggregates 100, 50 and 75 give a peak of 50.
C6_Witness ==
    \E p \in DOMAIN pc :
        /\ Assigned(p, "peak_throughput")
        /\ local[p].frontend_total_throughput = R(100)
        /\ local[p].cache_total_throughput = R(50)
        /\ local[p].backend_total_throughput = R(75)
        /\ local[p].peak_throughput = R(50)

\* Hit rates the formulas are compared across: 0, 1/HitRateSteps, ..., 1.
HitRateSteps == 4

HitRates == {Q(k, HitRateSteps) : k \in 0 .. HitRateSteps}

\* Backend service latencies the latency formula is compared across.
BackendLatencies == {R(0), Q(2, 25), R(1), Q(104, 25), R(10)}

\* The legacy script's globals set to the latencies of a system configuration.
GlobalsOf(system_config) ==
    [NETWORK_LATENCY |-> system_config.latency.network,
     PROCESSING_LATENCY |-> system_config.latency.processing]

\* The latency of a tier with the network and processing latencies added.
Effective(system_config, tier) ==
    RAdd(tier.latency, RAdd(system_config.latency.network, system_config.latency.processing))

C8_LatencyMonotone ==
    \A p \in DOMAIN pc :
        Assigned(p, "avg_latency")
        => LET c == config[p]
               h == local[p].cache_hit_rate
               at(b, r) == calculate_average_latency(c.system, c.frontend, c.cache,
                                                     [c.backend EXCEPT !.latency = b], r)
           IN  /\ \A b \in BackendLatencies :
                      /\ RLe(c.backend.latency, b) => RLe(local[p].avg_latency, at(b, h))
                      /\ RLe(b, c.backend.latency) => RLe(at(b, h), local[p].avg_latency)
               /\ \A r \in HitRates :
                      /\ RLe(h, r) => RLe(at(c.backend.latency, r), local[p].avg_latency)
                      /\ RLe(r, h) => RLe(local[p].avg_latency, at(c.backend.latency, r))

\* A run at hit rate 3/4 whose latency strictly drops at hit rate 1 and strictly
\* grows with a backend latency of 10.
C8_Witness ==
    \E p \in DOMAIN pc :
        /\ Assigned(p, "avg_latency")
        /\ local[p].cache_hit_rate = Q(3, 4)
        /\ RLt(config[p].backend.latency, R(10))
        /\ RLt(calculate_average_latency(config[p].system, config[p].frontend, config[p].cache,
                                         config[p].backend, R(1)),
               local[p].avg_latency)
        /\ RLt(local[p].avg_latency,
               calculate_average_latency(config[p].system, config[p].frontend, config[p].cache,
                                         [config[p].backend EXCEPT !.latency = R(10)],
                                         local[p].cache_hit_rate))

\* C9: recomputed at any other hit rate r, the embodied and replacement costs of
\* every tier and the active and idle costs of frontend and cache are those of the
\* run; the backend's active and idle costs are proportional to 1 - hit rate, and
\* are both zero at hit rate 1.
C9_OnlyBackendScaledByMissRate ==
    \A p \in DOMAIN pc :
        Assigned(p, "replacement_costs")
        => LET c == config[p]
               l == local[p]
               h == l.cache_hit_rate
           IN  /\ REq(h, R(1)) => REq(l.active_costs[3], R(0)) /\ REq(l.idle_costs[3], R(0))
               /\ \A r \in HitRates :
                      LET at == calculate_individual_carbon_costs(
                                    c.system, c.frontend, c.cache, c.backend,
                                    l.num_frontend_servers, l.num_cache_servers,
                                    l.num_backend_servers, r, R(args[p].simulation_years))
                      IN  /\ at.embodied_carbon_costs = l.embodied_carbon_costs
                          /\ at.replacement_costs = l.replacement_costs
                          /\ \A i \in 1 .. 2 : /\ at.active_costs[i] = l.active_costs[i]
                                               /\ at.idle_costs[i] = l.idle_costs[i]
                          /\ REq(RMul(at.active_costs[3], RSub(R(1), h)),
                                 RMul(l.active_costs[3], RSub(R(1), r)))
                          /\ REq(RMul(at.idle_costs[3], RSub(R(1), h)),
                                 RMul(l.idle_costs[3], RSub(R(1), r)))
                          /\ REq(r, R(1)) => /\ REq(at.active_costs[3], R(0))
                                             /\ REq(at.idle_costs[3], R(0))

\* A run at hit rate 1: the backend's active and idle costs are zero although its
\* servers draw power, and they are positive when recomputed at hit rate 1/2.
C9_Witness ==
    \E p \in DOMAIN pc :
        /\ Assigned(p, "replacement_costs")
        /\ local[p].cache_hit_rate = R(1)
        /\ local[p].active_costs[3] = R(0)
        /\ local[p].idle_costs[3] = R(0)
        /\ IsPositive(local[p].active_costs[2])
        /\ LET at == calculate_individual_carbon_costs(
                         config[p].system, config[p].frontend, config[p].cache, config[p].backend,
                         local[p].num_frontend_servers, local[p].num_cache_servers,
                         local[p].num_backend_servers, Q(1, 2), R(args[p].simulation_years))
           IN  IsPositive(at.active_costs[3]) /\ IsPositive(at.idle_costs[3])

\* Invocations that ended with exit status 0.
NumSucceeded == Cardinality({i \in DOMAIN exits : exits[i] = 0})

\* rows is a header followed by n data rows.
HeaderThenData(rows, n) ==
    /\ Len(rows) = n + 1
    /\ rows[1].kind = "header"
    /\ \A i \in 2 .. n + 1 : rows[i].kind = "data"

\* C10 as stated: after n >= 1 successful invocations against the same output path
\* the file holds one header followed by n data rows.
C10_OneHeaderThenRows_AnyPath ==
    NumSucceeded >= 1 => HeaderThenData(output.rows, NumSucceeded)

\* What the file holds after n successful invocations: when the path did not exist
\* before the first of them, nothing for n = 0 and one header followed by n data
\* rows for n >= 1; when it existed (empty), n data rows and no header.
C10_Shape ==
    IF output0.exists
    THEN /\ Len(output.rows) = NumSucceeded
         /\ \A i \in 1 .. Len(output.rows) : output.rows[i].kind = "data"
    ELSE \/ NumSucceeded = 0 /\ output.rows = <<>>
         \/ NumSucceeded >= 1 /\ HeaderThenData(output.rows, NumSucceeded)

\* A step leaves the rows alone or is the successful end of an invocation, which
\* keeps the earlier rows and appends its one data row, after the header only when
\* it is the first write to a path that did not exist.
C10_AppendOnly ==
    \/ output'.rows = output.rows
    \/ /\ exits' = Append(exits, 0)
       /\ LET old == Len(output.rows)
              new == Len(output'.rows)
          IN  /\ SubSeq(output'.rows, 1, old) = output.rows
              /\ output'.rows[new].kind = "data"
              /\ IF old = 0 /\ ~output0.exists
                 THEN new = 2 /\ output'.rows[1].kind = "header"
                 ELSE new = old + 1

\* C10 amended: for n >= 1 successful sequential invocations against the same
\* output path that did not exist before the first of them, the header is written
\* by the first write only and every later invocation appends exactly one data row
\* and alters no earlier row, so the file holds one header followed by n data rows;
\* against a path that already existed, no invocation writes a header.
C10_OneHeaderThenRows_FreshPath == [](C10_Shape) /\ [][C10_AppendOnly]_vars

\* Three invocations against a path that did not exist, the second of which failed:
\* a header and the two data rows, for --slo_throughput 1 and then 2.
C10_Witness ==
    /\ ~output0.exists
    /\ exits = <<0, 1, 0>>
    /\ Len(output.rows) = 3
    /\ output.rows[1].kind = "header"
    /\ Column(output.rows[2], "SLO Throughput") = R(1)
    /\ Column(output.rows[3], "SLO Throughput") = R(2)

\* The path load_config opens for a flag value: the value, or the fallback for "".
Resolved(file_path, default_config) == IF file_path = "" THEN default_config ELSE file_path

\* The file a flag resolves to cannot be loaded: it is absent, is not JSON, or is
\* JSON without the keys of its schema.
Unusable(d, file_path, default_config, keys) ==
    LET f == ReadFile(d, Resolved(file_path, default_config))
    IN  f.kind # "json" \/ ~(keys \subseteq DOMAIN f.value)

LoadFailure(p) ==
    \/ Unusable(disk, args[p].system, DEFAULT_SYSTEM_CONFIG, SystemKeys)
    \/ Unusable(disk, args[p].frontend, DEFAULT_FRONTEND_CONFIG, ServerKeys)
    \/ Unusable(disk, args[p].cache, DEFAULT_CACHE_CONFIG, ServerKeys)
    \/ Unusable(disk, args[p].backend, DEFAULT_BACKEND_CONFIG, ServerKeys)

PastLoading(p) == pc[p] \notin {"idle", "load_configs"}

\* A console line that reports a failure.
IsDiagnostic(line) ==
    line[1] \in {"Error: Configuration file not found",
                 "Error: Configuration file is not a valid JSON file",
                 "Traceback (most recent call last)"}

NoZeroThroughput(p) == \A i \in 1 .. 3 : ~RIsZero(config[p][TierNames[i]].throughput)

\* The invocation of p, the only one so far, appended its row to the output file.
AppendedItsRow(p) ==
    /\ Len(output.rows) = Len(output0.rows) + (IF output0.exists THEN 1 ELSE 2)
    /\ SubSeq(output.rows, 1, Len(output0.rows)) = output0.rows
    /\ LastRow.kind = "data"
    /\ Column(LastRow, "SLO Latency") = R(args[p].slo_latency)
    /\ Column(LastRow, "SLO Throughput") = R(args[p].slo_throughput)
    /\ Column(LastRow, "Average Latency") = local[p].avg_latency
    /\ Column(LastRow, "Peak Throughput") = local[p].peak_throughput

\* C12 as stated: every invocation that ended without a configuration load failure
\* ended with exit status 0 and appended its result row.
C12_ExitZeroWithoutLoadFailure_AnyConfig ==
    \A p \in DOMAIN pc :
        (pc[p] = "exited" /\ ~LoadFailure(p))
        => exit_code[p] = 0 /\ AppendedItsRow(p)

\* C12 amended: an invocation whose configuration files load and whose per-server
\* throughputs are all non-zero runs to the end, exits with status 0 and appends
\* its result row, whether or not the average latency exceeds --slo_latency; one
\* whose files load with a per-server throughput of zero ends with status 1 on the
\* uncaught ZeroDivisionError and appends nothing.
C12_ExitZeroWithoutLoadFailure_NonZeroThroughput ==
    \A p \in DOMAIN pc :
        (PastLoading(p) /\ ~LoadFailure(p))
        => /\ config[p].loaded
           /\ (pc[p] = "exited" /\ NoZeroThroughput(p))
              => exit_code[p] = 0 /\ AppendedItsRow(p)
           /\ (pc[p] # "exited" /\ NoZeroThroughput(p))
              => exit_code[p] = -1 /\ output.rows = output0.rows
           /\ ~NoZeroThroughput(p)
              => /\ pc[p] \in {"size_tiers", "exited"}
                 /\ pc[p] = "exited" => exit_code[p] = 1
                 /\ output = output0

\* An invocation with --slo_latency 1 whose average latency came out above 1: it
\* exited with 0 and its row, carrying both numbers, is in the file.
C12_Witness ==
    \E p \in DOMAIN pc :
        /\ pc[p] = "exited" /\ exit_code[p] = 0
        /\ args[p].slo_latency = 1
        /\ RLt(R(1), local[p].avg_latency)
        /\ Column(LastRow, "SLO Latency") = R(1)
        /\ Column(LastRow, "Average Latency") = local[p].avg_latency

\* The sizing step of p's invocation is over.
PastSizing(p) == config[p].loaded /\ pc[p] # "size_tiers"

\* The invocation of p died in sizing tier i: status 1 on the uncaught
\* ZeroDivisionError, no count for the tier, nothing computed after it, no row.
SizingFailed(p, i) ==
    /\ pc[p] = "exited"
    /\ exit_code[p] = 1
    /\ console[p][Len(console[p])] = Traceback("ZeroDivisionError")
    /\ ~Assigned(p, ServersVar[i])
    /\ ~Assigned(p, "cache_hit_rate")
    /\ output = output0

\* C13 as stated: sizing fails, with no server count and no result row, for every
\* per-server throughput that is zero or negative.
C13_SizingFails_ZeroOrNegative ==
    \A p \in DOMAIN pc : \A i \in 1 .. 3 :
        (PastSizing(p) /\ ~IsPositive(config[p][TierNames[i]].throughput))
        => SizingFailed(p, i)

\* C13 amended: sizing fails with a division by zero, with no server count for the
\* tier and no result row, whenever a per-server throughput is zero; a negative
\* per-server throughput does not fail: when no tier's throughput is zero every
\* tier gets the count ceil(t / q), which for q < 0 is the integer n with
\* n * q <= t < (n - 1) * q, and the run goes on.
C13_SizingFails_Zero ==
    \A p \in DOMAIN pc : \A i \in 1 .. 3 :
        PastSizing(p)
        => LET q == config[p][TierNames[i]].throughput
               t == R(args[p].slo_throughput)
           IN  /\ RIsZero(q) => SizingFailed(p, i)
               /\ NoZeroThroughput(p)
                  => /\ Assigned(p, ServersVar[i])
                     /\ pc[p] = "exited" => exit_code[p] = 0
                     /\ RLt(q, R(0))
                        => LET n == local[p][ServersVar[i]]
                           IN  /\ RIsInteger(n)
                               /\ RLe(RMul(n, q), t)
                               /\ RLt(t, RMul(RSub(n, R(1)), q))

\* --slo_throughput 3 against a backend throughput of zero: frontend and cache
\* were sized, the backend call raised, and the output path still does not exist.
C13_Witness ==
    \E p \in DOMAIN pc :
        /\ PastSizing(p)
        /\ args[p].slo_throughput = 3
        /\ RIsZero(config[p].backend.throughput)
        /\ SizingFailed(p, 3)
        /\ local[p].assigned = {"num_frontend_servers", "num_cache_servers"}
        /\ output = OutputAbsent

\* The output files left by invocations that succeeded, each with the flags of its
\* invocation: those removed since, and the one on disk.
FilesProduced ==
    {[args |-> removed[i].args, rows |-> removed[i].rows] :
         i \in {j \in DOMAIN removed : removed[j].exit_code = 0}}
    \cup {[args |-> args[p], rows |-> output.rows] :
              p \in {q \in DOMAIN pc : pc[q] = "exited" /\ exit_code[q] = 0 /\ output.exists}}

\* C14: invocations with identical flags and configuration files, each started
\* with no output file, leave identical output files, the header and one data row.
C14_Deterministic ==
    \A f \in FilesProduced :
        /\ Len(f.rows) = 2
        /\ f.rows[1] = HeaderRow
        /\ f.rows[2].kind = "data"
        /\ \A g \in FilesProduced : f.args = g.args => f.rows = g.rows

\* Three invocations, the first and the third with identical flags and identical
\* files, the second with other flags and another data row.
C14_Witness ==
    /\ Len(removed) = 2
    /\ pc[1] = "exited" /\ exit_code[1] = 0 /\ output.exists
    /\ removed[1].exit_code = 0 /\ removed[2].exit_code = 0
    /\ removed[1].args = args[1]
    /\ removed[1].rows = output.rows
    /\ Len(output.rows) = 2
    /\ removed[2].args # args[1]
    /\ removed[2].rows[2] # output.rows[2]

\* The four path flags with their argparse defaults (what parse_args puts in the
\* namespace for an omitted flag) and their module-level fallback paths.
PathFlags == <<"system", "frontend", "cache", "backend">>
ArgDefaults == <<ArgDefaultSystem, ArgDefaultFrontend, ArgDefaultCache, ArgDefaultBackend>>
Fallbacks == <<DEFAULT_SYSTEM_CONFIG, DEFAULT_FRONTEND_CONFIG, DEFAULT_CACHE_CONFIG,
               DEFAULT_BACKEND_CONFIG>>

\* The console of p says that the fallback path of flag k was used.
LoggedFallback(p, k) ==
    \E i \in DOMAIN console[p] :
        console[p][i] = <<"No configuration file provided, using default", Fallbacks[k]>>

\* C15: when the flag of a tier is omitted, so that the namespace holds its
\* argparse default, the configuration of a run that loaded its files is the
\* content of the tier's DEFAULT_* path, and the console says the default was used.
C15_OmittedFlagUsesFallbackPath ==
    \A p \in DOMAIN pc : \A k \in 1 .. 4 :
        (config[p].loaded /\ args[p][PathFlags[k]] = ArgDefaults[k])
        => /\ LoggedFallback(p, k)
           /\ ReadFile(disk, Fallbacks[k]).kind = "json"
           /\ config[p][PathFlags[k]] =
                  (IF k = 1 THEN SystemConfig(ReadFile(disk, Fallbacks[k]).value)
                            ELSE ServerConfig(ReadFile(disk, Fallbacks[k]).value))

\* The enumerated selector sets of the three tiers.
Enumerated ==
    [frontend |-> {"low_performance", "high_performance"},
     cache |-> {"DRAM", "flash"},
     backend |-> {"SSD", "HDD", "tape", "glass"}]

\* Every field of `profile` is the entry of `hardware` in the tier's table for it.
FromTables(profile, tier, hardware) ==
    /\ DOMAIN profile = {"latency", "throughput", "carbon_cost", "active_cost", "idle_cost",
                         "lifespan_years", "size"}
    /\ profile.latency = LegacyParams[tier].LATENCY[hardware]
    /\ profile.throughput = LegacyParams[tier].THROUGHPUT[hardware]
    /\ profile.carbon_cost = LegacyParams[tier].CARBON_COST[hardware]
    /\ profile.active_cost = LegacyParams[tier].ACCESS_COST[hardware]
    /\ profile.idle_cost = LegacyParams[tier].IDLE_COST[hardware]
    /\ profile.lifespan_years = LegacyParams[tier].LIFESPAN_YEARS[hardware]
    /\ profile.size = LegacyParams[tier].SIZE[hardware]

\* C16: in the legacy script, resolving a selector outside the tier's enumerated
\* set raises KeyError and yields no profile, and a selector inside it yields the
\* profile whose seven fields are that selector's entries of the tier's tables
\* (for "glass": 10, 0.21, 0.0001, read 1e-12 and write 1e-11, 0, 100, 7000);
\* through main() a selector outside the set ends the process at parse_args, with
\* no profile resolved, and selectors inside give the three profiles of the tables.
C16_SelectorResolution ==
    \A p \in DOMAIN pc :
        /\ pc[p] = "resolved"
           => LET l == local[p]
              IN  IF l.hardware \in Enumerated[l.tier]
                  THEN /\ l.outcome.how = "return"
                       /\ FromTables(l.outcome.value, l.tier, l.hardware)
                       /\ (l.hardware = "glass")
                          => l.outcome.value =
                                 [latency |-> Dec(1, 1), throughput |-> Dec(21, -2),
                                  carbon_cost |-> Dec(1, -4),
                                  active_cost |-> [read |-> Dec(1, -12), write |-> Dec(1, -11)],
                                  idle_cost |-> Dec(0, 0), lifespan_years |-> Dec(1, 2),
                                  size |-> Dec(7, 3)]
                  ELSE /\ l.outcome.how = "raise"
                       /\ l.outcome.exception = "KeyError"
                       /\ "value" \notin DOMAIN l.outcome
        /\ pc[p] \in {"legacy_configs", "legacy_size_tiers", "exited"}
           => IF \A tier \in DOMAIN Enumerated : args[p][tier] \in Enumerated[tier]
              THEN /\ pc[p] # "exited"
                   /\ pc[p] = "legacy_size_tiers"
                      => \A tier \in DOMAIN Enumerated :
                             FromTables(config[p][tier], tier, args[p][tier])
              ELSE /\ pc[p] = "exited"
                   /\ exit_code[p] # 0
                   /\ config[p] = NoConfig

\* The cache selector "flash" resolved against the frontend tables: KeyError, no
\* profile.
C16_Witness ==
    \E p \in DOMAIN pc :
        /\ pc[p] = "resolved"
        /\ local[p].hardware = "flash" /\ local[p].tier = "frontend"
        /\ local[p].hardware \in Enumerated.cache
        /\ local[p].outcome = Raise("KeyError")

\* The processes that wrote their rows, and those of them that had found no file.
Wrote == {p \in DOMAIN pc : pc[p] = "exited" /\ exit_code[p] = 0}
WroteHeader == {p \in Wrote : ~local[p].file_exists}

HeaderRows == {i \in DOMAIN output.rows : output.rows[i].kind = "header"}

\* C17: each process writes a header exactly when its own existence check, made
\* before it opened the file, found no file, whatever the other process did in
\* between: the file holds one header per such process and one data row per
\* process that wrote; when both processes ran their check before either opened
\* the path, the file ends as header, data row, header, data row.
C17_HeaderPerStaleCheck ==
    /\ Cardinality(HeaderRows) = Cardinality(WroteHeader)
    /\ Len(output.rows) = Cardinality(Wrote) + Cardinality(WroteHeader)
    /\ \A p \in DOMAIN pc :
           (pc[p] \in {"open_output", "write_rows"} /\ ~local[p].file_exists /\ output.exists)
           => ~output0.exists
    /\ (Wrote = DOMAIN pc /\ WroteHeader = DOMAIN pc)
       => /\ ~output0.exists
          /\ [i \in DOMAIN output.rows |-> output.rows[i].kind]
                 = <<"header", "data", "header", "data">>

\* Two concurrent invocations against a path that did not exist: both found no
\* file, both wrote a header, and the file has two header rows and two data rows.
C17_Witness ==
    /\ ~output0.exists
    /\ Wrote = {1, 2}
    /\ ~local[1].file_exists /\ ~local[2].file_exists
    /\ Len(output.rows) = 4
    /\ output.rows[1] = HeaderRow /\ output.rows[3] = HeaderRow
    /\ output.rows[2].kind = "data" /\ output.rows[4].kind = "data"

\* The runs in binary64 that reached the end of line 200.
FloatReported == {p \in DOMAIN pc : pc[p] = "float_reported"}

\* C18 as stated: with a positive SLO throughput and three positive per-server
\* throughputs, the peak throughput written to the row is at least the SLO
\* throughput.
C18_PeakAtLeastSlo ==
    \A p \in FloatReported :
        FCmp(local[p].peak_throughput, FOfInt(args[p].slo_throughput)) >= 0

\* C18: with a positive SLO throughput and three positive per-server throughputs,
\* every tier's count is a whole number of servers, the peak throughput is the
\* smallest of the three tier products, and it is at least the SLO throughput
\* times (1 - 2^-52): the quotient and the product are each rounded once, and the
\* two roundings can leave the peak just below the SLO throughput.
C18_PeakAtLeastSlo_UpToRounding ==
    \A p \in FloatReported :
        /\ \A v \in {"frontend_total_throughput", "cache_total_throughput",
                     "backend_total_throughput"} :
               FCmp(local[p].peak_throughput, local[p][v]) <= 0
        /\ \E v \in {"frontend_total_throughput", "cache_total_throughput",
                     "backend_total_throughput"} :
               local[p].peak_throughput = local[p][v]
        /\ \A v \in {"num_frontend_servers", "num_cache_servers", "num_backend_servers"} :
               FCeil(local[p][v]) = local[p][v]
        /\ FCmp(local[p].peak_throughput, LessRounding(args[p].slo_throughput, 52)) >= 0

\* A run with --slo_throughput 29 and a backend of throughput 0.29: 100 backend
\* servers, and a peak throughput below 29.
C18_Witness ==
    /\ 1 \in FloatReported
    /\ args[1].slo_throughput = 29
    /\ config[1].backend.literal = Dec(29, -2)
    /\ local[1].num_backend_servers = FOfInt(100)
    /\ FCmp(local[1].peak_throughput, FOfInt(29)) < 0

=============================================================================
